---- MODULE Spec2Model ----
(***************************************************************************)
(* The CSS matcher of soupsieve (soupsieve/css_match.py, class CSSMatch).  *)
(*                                                                         *)
(* A matcher is built from a selector list, a namespace table and a        *)
(* document mode; match(el) decides whether a node of a parsed document    *)
(* satisfies the selectors.  The matcher is a pure function, so the state  *)
(* of the model is the matcher's fields (selectors, namespaces, mode), the *)
(* document it reads, the arguments of the call in progress and, for       *)
(* match_nth, the local variables of its loops.                            *)
(*                                                                         *)
(* Strings are sequences of one-character strings, so that str.split,      *)
(* str.strip and util.lower are computed and not assumed.  An optional     *)
(* value (Python's None or a value) is a sequence of length 0 or 1.        *)
(* A node reference is a positive index into doc; 0 is None.  Node objects *)
(* are always true in a condition (only None is false), as parsed trees    *)
(* hold no empty strings.                                                  *)
(***************************************************************************)
EXTENDS Integers, Sequences, FiniteSets, TLC

VARIABLES
    mode,        \* self.mode
    namespaces,  \* self.namespaces: the entries (prefix, uri) of the table
    doc,         \* the document: a sequence of nodes
    el,          \* the node the operation is applied to
    selectors,   \* self.selectors / the selector list of the call
    nth,         \* the list of nth-specifications given to match_nth
    pc,          \* the operation applied, or the position inside match_nth
    result,      \* the value the operation returned
    loc          \* the local variables of match_nth

vars == <<mode, namespaces, doc, el, selectors, nth, pc, result, loc>>

----------------------------------------------------------------------------
(* Python values *)

None == <<>>
Some(x) == <<x>>

\* The truth value of an optional string: None and '' are false.
Truthy(o) == o # <<>> /\ o[1] # <<>>

Star == <<"*">>

\* util.HTML, util.HTML5, util.XHTML, util.XML
HTML == "HTML"
HTML5 == "HTML5"
XHTML == "XHTML"
XML == "XML"
Modes == {HTML, HTML5, XHTML, XML}

UpperCase == <<"A","B","C","D","E","F","G","H","I","J","K","L","M",
               "N","O","P","Q","R","S","T","U","V","W","X","Y","Z">>
LowerCase == <<"a","b","c","d","e","f","g","h","i","j","k","l","m",
               "n","o","p","q","r","s","t","u","v","w","x","y","z">>

LowerChar(c) ==
    IF \E i \in 1..Len(UpperCase) : UpperCase[i] = c
    THEN LowerCase[CHOOSE i \in 1..Len(UpperCase) : UpperCase[i] = c]
    ELSE c

\* util.lower: lower-case the ASCII letters of a string
lower(s) == [i \in 1..Len(s) |-> LowerChar(s[i])]

\* str.split(sep, 1) for a one-character separator
split1(k, sep) ==
    IF \E i \in 1..Len(k) : k[i] = sep
    THEN LET i == CHOOSE i \in 1..Len(k) :
                     k[i] = sep /\ \A j \in 1..(i - 1) : k[j] # sep
         IN  <<SubSeq(k, 1, i - 1), SubSeq(k, i + 1, Len(k))>>
    ELSE <<k>>

\* str.split(' '): every piece between single spaces, empty ones included
RECURSIVE split(_, _)
split(s, sep) ==
    LET parts == split1(s, sep)
    IN  IF Len(parts) = 1 THEN parts ELSE <<parts[1]>> \o split(parts[2], sep)

WhiteSpace == {" ", "\t", "\r", "\n"}

\* str.strip()
RECURSIVE strip(_)
strip(s) ==
    IF s = <<>> THEN s
    ELSE IF s[1] \in WhiteSpace THEN strip(Tail(s))
    ELSE IF s[Len(s)] \in WhiteSpace THEN strip(SubSeq(s, 1, Len(s) - 1))
    ELSE s

\* ' '.join(value)
RECURSIVE join(_)
join(l) ==
    IF l = <<>> THEN <<>>
    ELSE IF Len(l) = 1 THEN l[1]
    ELSE l[1] \o <<" ">> \o join(Tail(l))

\* c in s for strings: s holds c as a substring
IsSubstring(c, s) ==
    \E i \in 1..(Len(s) + 1) :
        i + Len(c) - 1 <= Len(s) /\ SubSeq(s, i, i + Len(c) - 1) = c

\* The elements of a sequence
Range(s) == {s[i] : i \in 1..Len(s)}

\* An attribute value: a string, or a list of strings (a token list)
StrVal(s) == [list |-> FALSE, s |-> s, l |-> <<>>]
ListVal(l) == [list |-> TRUE, s |-> <<>>, l |-> l]

----------------------------------------------------------------------------
(* The document the matcher reads *)

IsTag(e) == doc[e].tag                      \* isinstance(e, util.TAG)
Parent(e) == doc[e].parent                  \* e.parent
Contents(e) == doc[e].contents              \* e.contents, e.children

\* The position of e in its parent's contents
IndexInParent(e) ==
    CHOOSE i \in 1..Len(Contents(Parent(e))) : Contents(Parent(e))[i] = e

\* e.previous_sibling
PreviousSibling(e) ==
    IF Parent(e) = 0 \/ IndexInParent(e) = 1 THEN 0
    ELSE Contents(Parent(e))[IndexInParent(e) - 1]

\* e.next_sibling
NextSibling(e) ==
    IF Parent(e) = 0 \/ IndexInParent(e) = Len(Contents(Parent(e))) THEN 0
    ELSE Contents(Parent(e))[IndexInParent(e) + 1]

\* e.descendants: every node below e, in document order
RECURSIVE Descendants(_)
RECURSIVE DescendantsOf(_)
DescendantsOf(cs) ==
    IF cs = <<>> THEN <<>>
    ELSE <<cs[1]>> \o Descendants(cs[1]) \o DescendantsOf(Tail(cs))
Descendants(e) == DescendantsOf(Contents(e))

\* e.text: the strings below e, concatenated
RECURSIVE Text(_)
RECURSIVE TextOf(_)
TextOf(cs) ==
    IF cs = <<>> THEN <<>> ELSE Text(cs[1]) \o TextOf(Tail(cs))
Text(e) == IF IsTag(e) THEN TextOf(Contents(e)) ELSE doc[e].text

\* e.attrs.get(key, default)
AttrsGet(e, key, default) ==
    LET attrs == doc[e].attrs
    IN  IF \E i \in 1..Len(attrs) : attrs[i].k = key
        THEN attrs[CHOOSE i \in 1..Len(attrs) : attrs[i].k = key].v
        ELSE default

----------------------------------------------------------------------------
(* Namespaces and attributes *)

get_namespace(e) ==
    IF Truthy(doc[e].namespace) THEN doc[e].namespace[1] ELSE <<>>

supports_namespaces == mode \in {HTML5, XHTML, XML}

is_xml == mode \in {XHTML, XML}

\* prefix in self.namespaces
InNamespaces(prefix) ==
    \E i \in 1..Len(namespaces) : namespaces[i].prefix = prefix

\* self.namespaces.get(prefix): None when the prefix is not registered
NamespacesGet(prefix) ==
    IF InNamespaces(prefix)
    THEN Some(namespaces[CHOOSE i \in 1..Len(namespaces) :
                             namespaces[i].prefix = prefix].uri)
    ELSE None

\* self.namespaces.get(prefix, default)
NamespacesGetOr(prefix, default) ==
    IF InNamespaces(prefix) THEN NamespacesGet(prefix)[1] ELSE default

\* The prefix and the name of an attribute key, from k.split(':', 1)
\* (lines 62-72)
PartsPrefix(parts) ==
    IF Len(parts) > 1 /\ parts[1] # <<>> THEN parts[1] ELSE <<>>

PartsName(parts, k) ==
    IF Len(parts) > 1 /\ parts[1] # <<>> THEN parts[2] ELSE k

KeyPrefix(k) == PartsPrefix(split1(k, ":"))

KeyName(k) == PartsName(split1(k, ":"), k)

\* A matcher that lets a constraint without a prefix take a prefixed
\* attribute (the test of line 74 left out)
AttributeEntryAnyPrefix(p, a, attr, prefix) ==
    /\ ~(Truthy(prefix) /\ p = <<>> /\ prefix[1] # Star)
    /\ IF is_xml
       THEN /\ ~(Truthy(prefix) /\ p # <<>> /\ prefix[1] # Star /\ prefix[1] # p)
            /\ attr = a
       ELSE /\ ~(/\ Truthy(prefix) /\ p # <<>> /\ prefix[1] # Star
                 /\ lower(prefix[1]) # lower(p))
            /\ lower(attr) = lower(a)

\* Lines 74-92: no continue is taken for an attribute of prefix p, name a
AttributeEntryNS(p, a, attr, prefix) ==
    /\ ~(~Truthy(prefix) /\ p # <<>>)
    /\ ~(Truthy(prefix) /\ p = <<>> /\ prefix[1] # Star)
    /\ IF is_xml
       THEN /\ ~(Truthy(prefix) /\ p # <<>> /\ prefix[1] # Star /\ prefix[1] # p)
            /\ attr = a
       ELSE /\ ~(/\ Truthy(prefix) /\ p # <<>> /\ prefix[1] # Star
                 /\ lower(prefix[1]) # lower(p))
            /\ lower(attr) = lower(a)

\* Lines 97-98: the test of a mode without namespaces
AttributeEntryPlain(k, attr, prefix) == lower(attr) = lower(k)

\* The entry of key k is the one the loop breaks at
AttributeEntry(k, attr, prefix) ==
    IF supports_namespaces
    THEN AttributeEntryNS(KeyPrefix(k), KeyName(k), attr, prefix)
    ELSE AttributeEntryPlain(k, attr, prefix)

\* The prefix is one no namespace was defined for (line 58)
UndefinedPrefix(prefix) ==
    Truthy(prefix) /\ ~InNamespaces(prefix[1]) /\ prefix[1] # Star

\* The loops over el.attrs.items(): the index of the entry they break at,
\* from entry i on, and 0 when they run to the end
RECURSIVE AttributeLoop(_, _, _, _)
AttributeLoop(attrs, attr, prefix, i) ==
    IF i > Len(attrs) THEN 0
    ELSE IF AttributeEntry(attrs[i].k, attr, prefix) THEN i
    ELSE AttributeLoop(attrs, attr, prefix, i + 1)

\* The index of the attribute get_attribute returns, 0 when it returns None
AttributeIndex(e, attr, prefix) ==
    IF supports_namespaces /\ UndefinedPrefix(prefix) THEN 0
    ELSE AttributeLoop(doc[e].attrs, attr, prefix, 1)

AttributeValue(attrs, i) == IF i = 0 THEN None ELSE Some(attrs[i].v)

get_attribute(e, attr, prefix) ==
    AttributeValue(doc[e].attrs, AttributeIndex(e, attr, prefix))

\* a.pattern.match(value) is not None: the compiled pattern matches from the
\* start of the value, and to its end when the pattern is anchored there.
PatternMatch(pattern, value) ==
    /\ Len(pattern.lit) <= Len(value)
    /\ SubSeq(value, 1, Len(pattern.lit)) = pattern.lit
    /\ pattern.anchored => Len(value) = Len(pattern.lit)

\* Lines 138-139: a list is joined with spaces
ValueString(v) == IF v.list THEN join(v.l) ELSE v.s

\* Lines 140-150 for the value get_attribute returned
AttributeMatches(value, pattern) ==
    /\ value # None
    /\ pattern # None => PatternMatch(pattern[1], ValueString(value[1]))

match_attributes(e, attributes) ==
    \A i \in 1..Len(attributes) :
        AttributeMatches(
            get_attribute(e, attributes[i].attribute, attributes[i].prefix),
            attributes[i].pattern)

\* [c for c in value.strip().split(' ') if c]
ClassTokens(v) ==
    ListVal(SelectSeq(split(strip(v.s), " "), LAMBDA c : c # <<>>))

get_classes(e) ==
    IF mode \notin {XHTML, XML}
    THEN AttrsGet(e, <<"c","l","a","s","s">>, ListVal(<<>>))
    ELSE ClassTokens(AttrsGet(e, <<"c","l","a","s","s">>, StrVal(<<>>)))

match_namespace(e, tag) ==
    LET namespace == get_namespace(e)
        default_namespace == NamespacesGet(<<>>)
    IN  IF /\ tag.prefix = None
           /\ default_namespace # None /\ namespace # default_namespace[1]
        THEN FALSE
        ELSE IF tag.prefix # None /\ tag.prefix[1] = <<>> /\ namespace # <<>>
        THEN FALSE
        ELSE IF /\ Truthy(tag.prefix) /\ tag.prefix[1] # Star
                /\ namespace # NamespacesGetOr(tag.prefix[1], <<>>)
        THEN FALSE
        ELSE TRUE

match_tagname(e, tag) ==
    ~(/\ Truthy(tag.name)
      /\ tag.name[1] \notin
            {IF ~is_xml THEN lower(doc[e].name) ELSE doc[e].name, Star})

match_tag(e, tags) ==
    \A i \in 1..Len(tags) :
        /\ supports_namespaces => match_namespace(e, tags[i])
        /\ match_tagname(e, tags[i])

\* i != el.attrs.get('id', '') fails
IdIs(v, i) == ~v.list /\ i = v.s

match_id(e, ids) ==
    \A i \in 1..Len(ids) : IdIs(AttrsGet(e, <<"i","d">>, StrVal(<<>>)), ids[i])

\* c not in current_classes fails
InClasses(c, current_classes) ==
    IF current_classes.list
    THEN c \in Range(current_classes.l)
    ELSE IsSubstring(c, current_classes.s)

match_classes(e, classes) ==
    \A i \in 1..Len(classes) : InClasses(classes[i], get_classes(e))

match_root(e) == Parent(e) # 0 /\ Parent(Parent(e)) = 0

\* isinstance(child, util.CHILD) for some child: the model's documents hold
\* elements and strings, and of these only elements are util.CHILD
has_child(e) == \E i \in 1..Len(Contents(e)) : IsTag(Contents(e)[i])

\* RE_NOT_EMPTY.search(el.text) is None
OnlyWhiteSpace(s) == \A i \in 1..Len(s) : s[i] \in WhiteSpace

match_empty(e, is_empty) ==
    ~is_empty \/ (OnlyWhiteSpace(Text(e)) /\ ~has_child(e))

----------------------------------------------------------------------------
(* Relationships *)

REL_PARENT == <<" ">>
REL_CLOSE_PARENT == <<">">>
REL_SIBLING == <<"~">>
REL_CLOSE_SIBLING == <<"+">>
REL_HAS_PARENT == <<":", " ">>
REL_HAS_CLOSE_PARENT == <<":", ">">>
REL_HAS_SIBLING == <<":", "~">>
REL_HAS_CLOSE_SIBLING == <<":", "+">>

RECURSIVE match_selectors(_, _)

----------------------------------------------------------------------------
(* match_nth.  Its loops are run one iteration at a time: NthStep takes   *)
(* the position in the code and the local variables to the next position. *)

\* len(parent.contents) - 1
LastIndex(e) == Len(Contents(Parent(e))) - 1

\* a * count + b if var else a
NthIndex(n, count) == IF n.n THEN n.a * count + n.b ELSE n.a

\* The local variables on entry, before the first nth-specification
NthEntry ==
    [k |-> 1, matched |-> TRUE, idx |-> 0, last_idx |-> 0, count |-> 0,
     count_incr |-> 1, index |-> 0, relative_index |-> 0, lowest |-> 0,
     child |-> 0]

match_nth_tag_type(e, child) ==
    /\ doc[child].name = (IF ~is_xml THEN lower(doc[e].name) ELSE doc[e].name)
    /\ (supports_namespaces /\ get_namespace(child) = get_namespace(e))

\* Lines 293-310: the next nth-specification, its guards and its locals
NthFor(e, ns, l) ==
    IF l.k > Len(ns) THEN [at |-> "return", loc |-> l]
    ELSE LET n == ns[l.k]
             m == [l EXCEPT !.matched = FALSE]
         IN  IF Parent(e) = 0 THEN [at |-> "return", loc |-> m]
             ELSE IF n.selectors # <<>> /\ ~match_selectors(e, n.selectors)
             THEN [at |-> "return", loc |-> m]
             ELSE [at |-> IF n.n THEN "while_bounds" ELSE "while_idx",
                   loc |-> [m EXCEPT !.relative_index = 0,
                                     !.count = 0,
                                     !.count_incr = 1,
                                     !.index = IF n.last THEN LastIndex(e) ELSE 0,
                                     !.idx = NthIndex(n, 0),
                                     !.last_idx = NthIndex(n, 0),
                                     !.child = 0]]

\* Line 316: the test of the loop that adjusts the bounds
NthWhileBounds(e, ns, l) ==
    IF l.idx < 1 \/ l.idx > LastIndex(e)
    THEN [at |-> "bounds_body", loc |-> l]
    ELSE [at |-> "floor", loc |-> l]

\* Lines 317-332: one iteration of that loop
NthBoundsBody(e, ns, l) ==
    LET n == ns[l.k]
        diff_low == 0 - l.idx
        c1 == l.count + l.count_incr
        i1 == NthIndex(n, c1)
        low == l.idx < 0
        \* after the first if, unless it broke out
        c2 == IF low THEN c1 ELSE l.count
        i2 == IF low THEN i1 ELSE l.idx
        diff_high == i2 - LastIndex(e)
        c3 == c2 + l.count_incr
        i3 == NthIndex(n, c3)
    IN  IF low /\ (0 - i1) >= diff_low
        THEN [at |-> "floor",
              loc |-> [l EXCEPT !.count = c1, !.idx = i1, !.last_idx = i1]]
        ELSE IF i2 > LastIndex(e)
        THEN [at |-> IF (i3 - LastIndex(e)) >= diff_high
                     THEN "floor" ELSE "while_bounds",
              loc |-> [l EXCEPT !.count = c3, !.idx = i3, !.last_idx = i3]]
        ELSE [at |-> "while_bounds",
              loc |-> [l EXCEPT !.count = c2, !.idx = i2,
                                !.last_idx = IF low THEN i2 ELSE l.last_idx]]

\* Lines 337-338 and, when a >= 0, lines 344-345
NthFloor(e, ns, l) ==
    LET n == ns[l.k]
    IN  IF n.a < 0
        THEN [at |-> "while_floor", loc |-> [l EXCEPT !.lowest = l.count]]
        ELSE [at |-> "while_idx",
              loc |-> [l EXCEPT !.lowest = l.count,
                                !.idx = NthIndex(n, l.count),
                                !.last_idx = NthIndex(n, l.count)]]

\* Lines 339-345 when a < 0: one iteration, or the exit of the loop
NthWhileFloor(e, ns, l) ==
    LET n == ns[l.k]
    IN  IF l.idx >= 1
        THEN [at |-> "while_floor",
              loc |-> [l EXCEPT !.lowest = l.count,
                                !.count = l.count + l.count_incr,
                                !.idx = NthIndex(n, l.count + l.count_incr),
                                !.last_idx = NthIndex(n, l.count + l.count_incr)]]
        ELSE [at |-> "while_idx",
              loc |-> [l EXCEPT !.count_incr = -1,
                                !.count = l.lowest,
                                !.idx = NthIndex(n, l.lowest),
                                !.last_idx = NthIndex(n, l.lowest)]]

\* Lines 348-349: the test of the loop over the nth indexes
NthWhileIdx(e, ns, l) ==
    IF 1 <= l.idx /\ l.idx <= LastIndex(e)
    THEN [at |-> "while_index", loc |-> [l EXCEPT !.child = 0]]
    ELSE [at |-> "check", loc |-> l]

\* Lines 351-369: one iteration of the loop over the parent's contents
NthWhileIndex(e, ns, l) ==
    LET n == ns[l.k]
        child == Contents(Parent(e))[l.index + 1]
        factor == IF n.last THEN -1 ELSE 1
        m == [l EXCEPT !.child = child, !.index = l.index + factor]
        r == l.relative_index + 1
    IN  IF ~(0 <= l.index /\ l.index <= LastIndex(e))
        THEN [at |-> "after", loc |-> l]
        ELSE IF ~IsTag(child) THEN [at |-> "while_index", loc |-> m]
        ELSE IF n.selectors # <<>> /\ ~match_selectors(child, n.selectors)
        THEN [at |-> "while_index", loc |-> m]
        ELSE IF n.type /\ ~match_nth_tag_type(e, child)
        THEN [at |-> "while_index", loc |-> m]
        ELSE IF r = l.idx /\ child = e
        THEN [at |-> "after",
              loc |-> [m EXCEPT !.relative_index = r, !.matched = TRUE]]
        ELSE IF r = l.idx \/ child = e
        THEN [at |-> "after", loc |-> [m EXCEPT !.relative_index = r]]
        ELSE [at |-> "while_index", loc |-> [m EXCEPT !.relative_index = r]]

\* Lines 370-379: after the scan, the next nth index
NthAfter(e, ns, l) ==
    LET n == ns[l.k]
        c == l.count + l.count_incr
        m == [l EXCEPT !.last_idx = l.idx, !.count = c]
    IN  IF l.child = e THEN [at |-> "check", loc |-> l]
        ELSE IF c < 0 THEN [at |-> "check", loc |-> m]
        ELSE IF NthIndex(n, c) = l.idx
        THEN [at |-> "check", loc |-> [m EXCEPT !.idx = NthIndex(n, c)]]
        ELSE [at |-> "while_idx", loc |-> [m EXCEPT !.idx = NthIndex(n, c)]]

\* Lines 380-381: a specification that did not match ends the loop
NthCheck(e, ns, l) ==
    IF ~l.matched THEN [at |-> "return", loc |-> l]
    ELSE [at |-> "for", loc |-> [l EXCEPT !.k = l.k + 1]]

NthStep(e, ns, at, l) ==
    CASE at = "for" -> NthFor(e, ns, l)
      [] at = "while_bounds" -> NthWhileBounds(e, ns, l)
      [] at = "bounds_body" -> NthBoundsBody(e, ns, l)
      [] at = "floor" -> NthFloor(e, ns, l)
      [] at = "while_floor" -> NthWhileFloor(e, ns, l)
      [] at = "while_idx" -> NthWhileIdx(e, ns, l)
      [] at = "while_index" -> NthWhileIndex(e, ns, l)
      [] at = "after" -> NthAfter(e, ns, l)
      [] at = "check" -> NthCheck(e, ns, l)

RECURSIVE NthRun(_, _, _, _)
NthRun(e, ns, at, l) ==
    IF at = "return" THEN l.matched
    ELSE LET s == NthStep(e, ns, at, l)
         IN  NthRun(e, ns, s.at, s.loc)

\* match_nth as a function, for the nth-specifications it returns on
match_nth(e, ns) == NthRun(e, ns, "for", NthEntry)

----------------------------------------------------------------------------
(* Relationships between elements *)

\* Lines 181-184: the ancestors, nearest first, until one matches
RECURSIVE PastParents(_, _)
PastParents(parent, relation) ==
    IF parent = 0 THEN FALSE
    ELSE IF match_selectors(parent, <<relation>>) THEN TRUE
    ELSE PastParents(Parent(parent), relation)

\* Lines 190-196: the preceding siblings, nearest first, strings skipped
RECURSIVE PastSiblings(_, _)
PastSiblings(sibling, relation) ==
    IF sibling = 0 THEN FALSE
    ELSE IF ~IsTag(sibling) THEN PastSiblings(PreviousSibling(sibling), relation)
    ELSE IF match_selectors(sibling, <<relation>>) THEN TRUE
    ELSE PastSiblings(PreviousSibling(sibling), relation)

\* A matcher that does not skip the strings before the element
PastCloseSiblingNoSkip(sibling) == sibling

\* Lines 198-200: the nearest preceding sibling that is an element, or None
RECURSIVE PastCloseSibling(_)
PastCloseSibling(sibling) ==
    IF sibling # 0 /\ ~IsTag(sibling)
    THEN PastCloseSibling(PreviousSibling(sibling))
    ELSE sibling

\* Lines 201-202 and 237-238: the sibling found, if any, is tested
CloseSiblingMatches(sibling, relation) ==
    sibling # 0 /\ IsTag(sibling) /\ match_selectors(sibling, <<relation>>)

match_past_relations(e, relation) ==
    IF relation.rel_type = REL_PARENT
    THEN PastParents(Parent(e), relation)
    ELSE IF relation.rel_type = REL_CLOSE_PARENT
    THEN Parent(e) # 0 /\ match_selectors(Parent(e), <<relation>>)
    ELSE IF relation.rel_type = REL_SIBLING
    THEN PastSiblings(PreviousSibling(e), relation)
    ELSE IF relation.rel_type = REL_CLOSE_SIBLING
    THEN CloseSiblingMatches(PastCloseSibling(PreviousSibling(e)), relation)
    ELSE FALSE

\* A matcher that looks at the children only
FutureChildrenDirect(parent, recursive) == Contents(parent)

\* Line 209: parent.descendants if recursive else parent.children
FutureChildren(parent, recursive) ==
    IF recursive THEN Descendants(parent) ELSE Contents(parent)

\* Lines 208-215: the loop over the children; match is the last result
RECURSIVE FutureChildLoop(_, _, _)
FutureChildLoop(children, relation, match) ==
    IF children = <<>> THEN match
    ELSE IF ~IsTag(children[1]) THEN FutureChildLoop(Tail(children), relation, match)
    ELSE IF match_selectors(children[1], <<relation>>) THEN TRUE
    ELSE FutureChildLoop(Tail(children), relation, FALSE)

match_future_child(parent, relation, recursive) ==
    FutureChildLoop(FutureChildren(parent, recursive), relation, FALSE)

\* Lines 226-232: the following siblings, nearest first, strings skipped
RECURSIVE FutureSiblings(_, _)
FutureSiblings(sibling, relation) ==
    IF sibling = 0 THEN FALSE
    ELSE IF ~IsTag(sibling) THEN FutureSiblings(NextSibling(sibling), relation)
    ELSE IF match_selectors(sibling, <<relation>>) THEN TRUE
    ELSE FutureSiblings(NextSibling(sibling), relation)

\* Lines 234-236: the nearest following sibling that is an element, or None
RECURSIVE FutureCloseSibling(_)
FutureCloseSibling(sibling) ==
    IF sibling # 0 /\ ~IsTag(sibling)
    THEN FutureCloseSibling(NextSibling(sibling))
    ELSE sibling

match_future_relations(e, relation) ==
    IF relation.rel_type = REL_HAS_PARENT
    THEN match_future_child(e, relation, TRUE)
    ELSE IF relation.rel_type = REL_HAS_CLOSE_PARENT
    THEN match_future_child(e, relation, FALSE)
    ELSE IF relation.rel_type = REL_HAS_SIBLING
    THEN FutureSiblings(NextSibling(e), relation)
    ELSE IF relation.rel_type = REL_HAS_CLOSE_SIBLING
    THEN CloseSiblingMatches(FutureCloseSibling(NextSibling(e)), relation)
    ELSE FALSE

match_relations(e, relation) ==
    IF relation.rel_type # <<>> /\ relation.rel_type[1] = ":"
    THEN match_future_relations(e, relation)
    ELSE match_past_relations(e, relation)

----------------------------------------------------------------------------
(* The selectors *)

\* Lines 406-430: no constraint of the selector sends the loop to continue
SelectorHolds(e, selector) ==
    LET is_html == mode # XML
    IN  /\ match_tag(e, selector.tags)
        /\ match_nth(e, selector.nth)
        /\ match_empty(e, selector.is_empty)
        /\ ~(is_html /\ selector.ids # <<>> /\ ~match_id(e, selector.ids))
        /\ ~(is_html /\ selector.classes # <<>>
                /\ ~match_classes(e, selector.classes))
        /\ match_attributes(e, selector.attributes)
        /\ ~(selector.is_root /\ ~match_root(e))
        /\ ~(selector.selectors # <<>> /\ ~match_selectors(e, selector.selectors))
        /\ ~(selector.relation # None
                /\ ~match_relations(e, selector.relation[1]))

\* A matcher that leaves match false when the constraints fail
MatchOnContinueFalse(selector) == FALSE

\* Line 405: the value match holds when the selector's constraints fail
MatchOnContinue(selector) == selector.is_not

\* Line 431: the value match holds when the selector's constraints hold
MatchOnBreak(selector) == ~selector.is_not

\* Lines 402-434: the loop over the selectors; match is the last value set
RECURSIVE SelectorsLoop(_, _, _)
SelectorsLoop(e, sels, match) ==
    IF sels = <<>> THEN match
    ELSE IF SelectorHolds(e, sels[1]) THEN MatchOnBreak(sels[1])
    ELSE SelectorsLoop(e, Tail(sels), MatchOnContinue(sels[1]))

match_selectors(e, sels) == SelectorsLoop(e, sels, FALSE)

match(e) == IsTag(e) /\ match_selectors(e, selectors)

----------------------------------------------------------------------------
(* Documents *)

Element(name, namespace, attrs) ==
    [tag |-> TRUE, name |-> name, namespace |-> namespace, attrs |-> attrs,
     text |-> <<>>]

String(text) ==
    [tag |-> FALSE, name |-> <<>>, namespace |-> None, attrs |-> <<>>,
     text |-> text]

\* The object at the top of a parsed tree: an element with no parent
Document ==
    Element(<<"[","d","o","c","u","m","e","n","t","]">>, None, <<>>)

\* Node 1 is the top; par gives the parent of every other node, a node of
\* a smaller index, and lab what the node is.  The contents of a node are
\* its children in the order of their indexes.
MakeDoc(N, top, par, lab) ==
    [i \in 1..N |->
        LET kind == IF i = 1 THEN top ELSE lab[i]
        IN  [tag |-> kind.tag, name |-> kind.name,
             namespace |-> kind.namespace, attrs |-> kind.attrs,
             text |-> kind.text,
             parent |-> IF i = 1 THEN 0 ELSE par[i],
             contents |-> SelectSeq([j \in 1..N |-> j],
                                    LAMBDA j : j >= 2 /\ par[j] = i)]]

\* The trees of N nodes under a document object: node 2 is the root element
Shapes(N) ==
    {par \in [2..N -> 1..N] : par[2] = 1 /\ \A i \in 3..N : par[i] \in 1..(i - 1)}

Labels(N, kinds, par) ==
    {lab \in [2..N -> kinds] :
        lab[2].tag /\ \A i \in 3..N : par[i] = 1 \/ lab[par[i]].tag}

TreeDocs(maxN, kinds) ==
    UNION {UNION {{MakeDoc(N, Document, par, lab) : lab \in Labels(N, kinds, par)}
                  : par \in Shapes(N)}
           : N \in 2..maxN}

\* A parent element (node 1) and its contents (nodes 2..N)
SiblingDocs(maxN, top, kinds) ==
    UNION {{MakeDoc(N, top, [i \in 2..N |-> 1], lab) : lab \in [2..N -> kinds]}
           : N \in 2..maxN}

Elements(d) == {e \in 1..Len(d) : d[e].tag}

----------------------------------------------------------------------------
(* Selectors *)

Selector ==
    [tags |-> <<>>, ids |-> <<>>, classes |-> <<>>, attributes |-> <<>>,
     nth |-> <<>>, is_empty |-> FALSE, is_root |-> FALSE, is_not |-> FALSE,
     selectors |-> <<>>, relation |-> None, rel_type |-> None]

SelectorTag(name, prefix) == [name |-> name, prefix |-> prefix]

SelectorAttribute(attribute, prefix, pattern) ==
    [attribute |-> attribute, prefix |-> prefix, pattern |-> pattern]

SelectorNth(a, n, b, type, last, sels) ==
    [a |-> a, n |-> n, b |-> b, type |-> type, last |-> last, selectors |-> sels]

----------------------------------------------------------------------------
(* match_nth, one loop iteration at a time *)

MaxSiblings == 4
LoopSiblings == 2
MaxA == 2
MaxB == 3

NthKinds == {Element(<<"p">>, None, <<>>), Element(<<"q">>, None, <<>>),
             String(<<"\n">>)}

\* match_nth is entered for an element among at most maxN sibling nodes
NthInputs(maxN) ==
    /\ mode \in Modes
    /\ namespaces = <<>>
    /\ doc \in SiblingDocs(maxN + 1, Element(<<"u">>, None, <<>>), NthKinds)
    /\ el \in Elements(doc)
    /\ selectors = <<>>
    /\ nth \in {<<SelectorNth(a, n, b, type, last, <<>>)>> :
                    a \in (0 - MaxA)..MaxA, n \in BOOLEAN,
                    b \in (0 - MaxB)..MaxB, type \in BOOLEAN, last \in BOOLEAN}
    /\ pc = "for"
    /\ result = FALSE
    /\ loc = NthEntry

InitNth == NthInputs(MaxSiblings)

InitNthLoop == NthInputs(LoopSiblings)

\* A step of match_nth: s is where it leads
NthTake(at, s) ==
    /\ pc = at
    /\ pc' = s.at
    /\ loc' = s.loc
    /\ result' = IF s.at = "return" THEN s.loc.matched ELSE result
    /\ UNCHANGED <<mode, namespaces, doc, el, selectors, nth>>

For == NthTake("for", NthFor(el, nth, loc))
WhileBounds == NthTake("while_bounds", NthWhileBounds(el, nth, loc))
BoundsBody == NthTake("bounds_body", NthBoundsBody(el, nth, loc))
Floor == NthTake("floor", NthFloor(el, nth, loc))
WhileFloor == NthTake("while_floor", NthWhileFloor(el, nth, loc))
WhileIdx == NthTake("while_idx", NthWhileIdx(el, nth, loc))
WhileIndex == NthTake("while_index", NthWhileIndex(el, nth, loc))
After == NthTake("after", NthAfter(el, nth, loc))
Check == NthTake("check", NthCheck(el, nth, loc))

NextNth ==
    \/ For
    \/ WhileBounds
    \/ BoundsBody
    \/ Floor
    \/ WhileFloor
    \/ WhileIdx
    \/ WhileIndex
    \/ After
    \/ Check

SpecNth == InitNth /\ [][NextNth]_vars

\* A call runs on: a step that can be taken is taken
SpecNthLoop == InitNthLoop /\ [][NextNth]_vars /\ WF_vars(NextNth)

----------------------------------------------------------------------------
(* The operations of the matcher, each applied once to its arguments *)

Return(op, value) ==
    /\ pc = "call"
    /\ pc' = op
    /\ result' = value
    /\ UNCHANGED <<mode, namespaces, doc, el, selectors, nth, loc>>

\* match(el), for any node of the document
Match == Return("match", match(el))

\* match_selectors(el, selectors), for an element
MatchSelectors ==
    /\ IsTag(el)
    /\ Return("match_selectors", match_selectors(el, selectors))

\* match_relations(el, relation), for the relation of the first selector
MatchRelations ==
    /\ IsTag(el)
    /\ selectors[1].relation # None
    /\ Return("match_relations", match_relations(el, selectors[1].relation[1]))

\* match_tag(el, tags), for the tags of the first selector
MatchTag ==
    /\ IsTag(el)
    /\ selectors[1].tags # <<>>
    /\ Return("match_tag", match_tag(el, selectors[1].tags))

\* get_attribute(el, attr, prefix), for the first attribute of the first
\* selector
GetAttribute ==
    /\ IsTag(el)
    /\ selectors[1].attributes # <<>>
    /\ Return("get_attribute",
              get_attribute(el, selectors[1].attributes[1].attribute,
                            selectors[1].attributes[1].prefix))

\* match_attributes(el, attributes), for the attributes of the first selector
MatchAttributes ==
    /\ IsTag(el)
    /\ selectors[1].attributes # <<>>
    /\ Return("match_attributes", match_attributes(el, selectors[1].attributes))

Idle == nth = <<>> /\ loc = NthEntry

----------------------------------------------------------------------------
(* Selector lists matched against small documents *)

SelNodes == 3

P == <<"p">>
SPAN == <<"s","p","a","n">>
DIV == <<"d","i","v">>
ID == <<"i","d">>
CLASS == <<"c","l","a","s","s">>

\* The class attribute as the tree builder of the mode gives it: a list of
\* tokens, or in the XML modes the string
ClassValue(m, tokens) ==
    IF m \in {XHTML, XML} THEN StrVal(join(tokens)) ELSE ListVal(tokens)

SelKinds(m) ==
    {Element(P, None, <<[k |-> ID, v |-> StrVal(<<"a">>)],
                        [k |-> CLASS, v |-> ClassValue(m, <<<<"c">>, <<"d">>>>)]>>),
     Element(SPAN, None, <<>>),
     String(<<"x">>)}

TagP == [Selector EXCEPT !.tags = <<SelectorTag(Some(P), None)>>]
TagSpan == [Selector EXCEPT !.tags = <<SelectorTag(Some(SPAN), None)>>]
Not(sel) == [sel EXCEPT !.is_not = ~sel.is_not]
Related(sel, rel_type) == [sel EXCEPT !.rel_type = rel_type]

\* Compound selectors, one for each kind of constraint
SelBase ==
    {TagP,
     TagSpan,
     [Selector EXCEPT !.ids = <<<<"a">>>>],
     [Selector EXCEPT !.classes = <<<<"d">>>>],
     [Selector EXCEPT !.attributes = <<SelectorAttribute(ID, None, None)>>],
     [Selector EXCEPT !.nth = <<SelectorNth(1, FALSE, 0, FALSE, FALSE, <<>>)>>],
     [Selector EXCEPT !.nth = <<SelectorNth(2, TRUE, 1, FALSE, TRUE, <<TagP>>)>>],
     [Selector EXCEPT !.is_empty = TRUE],
     [Selector EXCEPT !.is_root = TRUE],
     [Selector EXCEPT !.selectors = <<TagP, Not(TagSpan)>>],
     [Selector EXCEPT !.relation = Some(Related(TagP, REL_CLOSE_PARENT))],
     [Selector EXCEPT !.relation = Some(Related(TagSpan, REL_HAS_PARENT))]}

SelPool == SelBase \cup {Not(sel) : sel \in SelBase}

Init ==
    /\ mode \in Modes
    /\ namespaces = <<>>
    /\ doc \in TreeDocs(SelNodes, SelKinds(mode))
    /\ el \in 1..Len(doc)
    /\ selectors \in {<<A>> : A \in SelPool}
                        \cup {<<A, B>> : A \in SelPool, B \in SelPool}
    /\ pc = "call"
    /\ result = FALSE
    /\ Idle

Next ==
    \/ Match
    \/ MatchSelectors

Spec == Init /\ [][Next]_vars

----------------------------------------------------------------------------
(* Relations matched in document trees *)

RelNodes == 4

RelKinds ==
    {Element(DIV, None, <<>>), Element(P, None, <<>>),
     Element(SPAN, None, <<>>), String(<<"\n">>)}

RelTypes ==
    {REL_PARENT, REL_CLOSE_PARENT, REL_SIBLING, REL_CLOSE_SIBLING,
     REL_HAS_PARENT, REL_HAS_CLOSE_PARENT, REL_HAS_SIBLING,
     REL_HAS_CLOSE_SIBLING}

\* What a relation leads to: an element name, its negation, or an element
\* that is itself related to another
RelTargets ==
    {TagSpan, TagP, Not(TagP),
     [TagSpan EXCEPT !.relation = Some(Related(TagP, REL_CLOSE_SIBLING))]}

InitRel ==
    /\ mode \in {HTML, XML}
    /\ namespaces = <<>>
    /\ doc \in TreeDocs(RelNodes, RelKinds)
    /\ el \in 1..Len(doc)
    /\ selectors \in {<<[Selector EXCEPT !.relation = Some(Related(T, r))]>> :
                        T \in RelTargets, r \in RelTypes}
    /\ pc = "call"
    /\ result = FALSE
    /\ Idle

NextRel ==
    \/ MatchRelations
    \/ MatchSelectors

SpecRel == InitRel /\ [][NextRel]_vars

----------------------------------------------------------------------------
(* Tags and attributes matched against one element *)

MaxAttrs == 2

X == <<"x">>
Y == <<"y">>
URN1 == <<"u","r","n",":","1">>
URN2 == <<"u","r","n",":","2">>

\* An attribute named a, without a prefix and with one, in both cases
AttrKeys == {<<"a">>, <<"A">>, <<"x",":","a">>, <<"y",":","a">>, <<":","a">>}

AttrLists ==
    UNION {[1..n -> {[k |-> k, v |-> StrVal(<<"v">>)] : k \in AttrKeys}]
           : n \in 0..MaxAttrs}

NamespaceTables ==
    {<<>>,
     <<[prefix |-> X, uri |-> URN1]>>,
     <<[prefix |-> <<>>, uri |-> URN1]>>,
     <<[prefix |-> X, uri |-> URN1], [prefix |-> <<>>, uri |-> URN2]>>}

Prefixes == {None, Some(<<>>), Some(X), Some(Y), Some(Star)}

AttrSelectors ==
    {[Selector EXCEPT !.tags = <<SelectorTag(name, prefix)>>] :
        name \in {Some(P), Some(Star)}, prefix \in Prefixes}
    \cup
    {[Selector EXCEPT !.attributes = <<SelectorAttribute(<<"a">>, prefix, pattern)>>] :
        prefix \in Prefixes,
        pattern \in {None, Some([lit |-> <<"v">>, anchored |-> TRUE])}}

InitAttr ==
    /\ mode \in Modes
    /\ namespaces \in NamespaceTables
    /\ doc \in {MakeDoc(2, Document, [i \in 2..2 |-> 1],
                        [i \in 2..2 |-> Element(P, namespace, attrs)]) :
                    namespace \in {None, Some(URN1), Some(URN2)},
                    attrs \in AttrLists}
    /\ el = 2
    /\ selectors \in {<<A>> : A \in AttrSelectors}
    /\ pc = "call"
    /\ result = FALSE
    /\ Idle

NextAttr ==
    \/ MatchTag
    \/ GetAttribute
    \/ MatchAttributes
    \/ MatchSelectors

SpecAttr == InitAttr /\ [][NextAttr]_vars

----------------------------------------------------------------------------
(* Properties of match_selectors *)

\* C1: match_selectors(n, [A, B]) is match_selectors(n, [A]) or
\* match_selectors(n, [B]), for every element n and compound selectors A, B,
\* negated or not.
DisjunctionOfMembers ==
    (pc = "match_selectors" /\ Len(selectors) = 2)
        => result = (\/ match_selectors(el, <<selectors[1]>>)
                     \/ match_selectors(el, <<selectors[2]>>))

\* C5: match_selectors(n, [A']) is the negation of match_selectors(n, [A])
\* when A' is A with is_not flipped.
NegationFlips ==
    (pc = "match_selectors" /\ Len(selectors) = 1)
        => result = ~match_selectors(el, <<Not(selectors[1])>>)

\* A negated selector with a relation was matched, and matched
NegationFlipsWitness ==
    /\ pc = "match_selectors"
    /\ Len(selectors) = 1
    /\ selectors[1].is_not
    /\ selectors[1].relation # None
    /\ Parent(el) # 0
    /\ result = TRUE

----------------------------------------------------------------------------
(* Properties of the relations *)

\* d is strictly below n: n is the parent of d or of a node above d
RECURSIVE IsBelow(_, _)
IsBelow(d, n) ==
    Parent(d) # 0 /\ (Parent(d) = n \/ IsBelow(Parent(d), n))

\* The operation applied a relation of the given kind
Applied(op, rel_type) ==
    /\ pc = op
    /\ selectors[1].relation # None
    /\ selectors[1].relation[1].rel_type = rel_type

Target == selectors[1].relation[1]

\* el is the div of <div><p></p><span></span></div>
IsScenarioDiv(e) ==
    /\ doc[e].name = DIV
    /\ Len(Contents(e)) = 2
    /\ doc[Contents(e)[1]].name = P /\ doc[Contents(e)[1]].tag
    /\ doc[Contents(e)[2]].name = SPAN /\ doc[Contents(e)[2]].tag
    /\ Contents(Contents(e)[1]) = <<>>
    /\ Contents(Contents(e)[2]) = <<>>

\* C8: a has-descendant relation on n with target T holds iff some element
\* strictly below n, at any depth, satisfies match_selectors(d, [T]); and
\* :has(span) matches the div of <div><p></p><span></span></div>, not the p.
HasDescendantIffSomeBelow ==
    /\ Applied("match_relations", REL_HAS_PARENT)
        => result = (\E d \in 1..Len(doc) :
                        /\ IsTag(d)
                        /\ IsBelow(d, el)
                        /\ match_selectors(d, <<Target>>))
    /\ (Applied("match_selectors", REL_HAS_PARENT) /\ Target = Related(TagSpan, REL_HAS_PARENT))
        => /\ IsScenarioDiv(el) => result = TRUE
           /\ (Parent(el) # 0 /\ IsScenarioDiv(Parent(el)) /\ doc[el].name = P)
                => result = FALSE

\* The relation held for an element whose children do not satisfy the
\* target, while an element further down does
HasDescendantWitness ==
    /\ Applied("match_relations", REL_HAS_PARENT)
    /\ result = TRUE
    /\ \A i \in 1..Len(Contents(el)) :
            ~(IsTag(Contents(el)[i]) /\ match_selectors(Contents(el)[i], <<Target>>))
    /\ match_selectors(el, <<Target>>)

\* The nearest element before e in its parent's contents, 0 when there is none
NearestElementBefore(e) ==
    IF Parent(e) = 0 THEN 0
    ELSE LET cs == Contents(Parent(e))
             before == {j \in 1..(IndexInParent(e) - 1) : IsTag(cs[j])}
         IN  IF before = {} THEN 0
             ELSE cs[CHOOSE j \in before : \A i \in before : i <= j]

----------------------------------------------------------------------------
(* Properties of tags and attributes *)

\* The prefix is given, is not the wildcard and is not in the namespace table
PrefixUnknown(prefix) ==
    /\ prefix # None
    /\ prefix[1] # <<>>
    /\ prefix[1] # Star
    /\ \A i \in 1..Len(namespaces) : namespaces[i].prefix # prefix[1]

\* C6: in a mode that supports namespaces, a tag or attribute constraint
\* whose prefix is not empty, not the wildcard and not in the namespace
\* table matches no node, with a namespace or without.
UnknownPrefixNeverMatches ==
    supports_namespaces =>
        /\ (pc = "match_tag" /\ PrefixUnknown(selectors[1].tags[1].prefix))
                => result = FALSE
        /\ (pc = "match_attributes"
                /\ PrefixUnknown(selectors[1].attributes[1].prefix))
                => result = FALSE
        /\ (pc = "get_attribute"
                /\ PrefixUnknown(selectors[1].attributes[1].prefix))
                => result = None

\* The key has a prefix: its first colon follows at least one character
KeyHasPrefix(k) ==
    \E i \in 2..Len(k) : k[i] = ":" /\ \A j \in 1..(i - 1) : k[j] # ":"

\* The key of the attribute the constraint was matched with
MatchedKey ==
    doc[el].attrs[AttributeIndex(el, selectors[1].attributes[1].attribute,
                                 selectors[1].attributes[1].prefix)].k

\* The operation found an attribute for the constraint
AttributeFound ==
    \/ pc = "get_attribute" /\ result # None
    \/ pc = "match_attributes" /\ result = TRUE

\* The prefix of the constraint and the key found agree on having a prefix
PrefixPresenceAgrees(prefix, k) ==
    /\ ~Truthy(prefix) => ~KeyHasPrefix(k)
    /\ (Truthy(prefix) /\ prefix[1] # Star) => KeyHasPrefix(k)

\* C9 as stated: in every document mode, a constraint without a prefix never
\* matches an attribute whose key has one, and a constraint with a prefix
\* other than the wildcard never matches an attribute whose key has none.
PrefixPresenceInEveryMode ==
    AttributeFound
        => PrefixPresenceAgrees(selectors[1].attributes[1].prefix, MatchedKey)

\* The first attribute of e whose whole key is the name, letter case apart
FirstKeyNamed(e, attr) ==
    LET attrs == doc[e].attrs
        named == {i \in 1..Len(attrs) : lower(attrs[i].k) = lower(attr)}
    IN  IF named = {} THEN None
        ELSE Some(attrs[CHOOSE i \in named : \A j \in named : i <= j].v)

\* C9 amended: the same, in the modes that support namespaces (HTML5, XHTML,
\* XML); in plain HTML mode the prefix of the constraint is not looked at,
\* and get_attribute returns the first attribute whose whole key is the
\* name, letter case apart.
PrefixPresenceWithNamespaces ==
    /\ (supports_namespaces /\ AttributeFound)
            => PrefixPresenceAgrees(selectors[1].attributes[1].prefix, MatchedKey)
    /\ (~supports_namespaces /\ pc = "get_attribute")
            => result = FirstKeyNamed(el, selectors[1].attributes[1].attribute)

\* A constraint without a prefix was matched with the second attribute of an
\* element whose first attribute has the name and a prefix
PrefixPresenceWitness ==
    /\ supports_namespaces
    /\ pc = "get_attribute"
    /\ ~Truthy(selectors[1].attributes[1].prefix)
    /\ Len(doc[el].attrs) = 2
    /\ KeyHasPrefix(doc[el].attrs[1].k)
    /\ AttributeIndex(el, selectors[1].attributes[1].attribute,
                      selectors[1].attributes[1].prefix) = 2

----------------------------------------------------------------------------
(* Properties of match_nth *)

\* The siblings the position of e is counted among: the elements of the
\* parent's contents, of the name and namespace of e when of_type is set
Counted(e, n) ==
    SelectSeq(Contents(Parent(e)),
              LAMBDA c : /\ IsTag(c)
                         /\ n.type => /\ doc[c].name = doc[e].name
                                      /\ doc[c].namespace = doc[e].namespace)

\* The 1-indexed position of e among them, from the end when last is set
Position(e, n) ==
    LET i == CHOOSE i \in 1..Len(Counted(e, n)) : Counted(e, n)[i] = e
    IN  IF n.last THEN Len(Counted(e, n)) - i + 1 ELSE i

\* p = a * k + b for some k >= 0: a = 0 and p = b, or a # 0, p - b is a
\* multiple of a and (p - b) / a >= 0
ClosedForm(p, a, b) ==
    IF a = 0 THEN p = b
    ELSE \E k \in 0..(MaxSiblings + MaxB) : p - b = a * k

\* match_nth returned for a single specification and an element with a parent
Returned == pc = "return" /\ Len(nth) = 1 /\ Parent(el) # 0

\* C2: with the n flag set, match_nth is true iff the position p of the
\* candidate among the element siblings satisfies the closed form, whatever
\* the sibling list holds between the elements.  (Stated for the
\* specifications without of_type, which C7 is about.)
NthIsClosedForm ==
    (Returned /\ nth[1].n /\ ~nth[1].type)
        => result = ClosedForm(Position(el, nth[1]), nth[1].a, nth[1].b)

\* C3: with the n flag false, a = 0 and a fixed b, match_nth is true iff the
\* position of the candidate is b.
NthFixedIsB ==
    (Returned /\ ~nth[1].n /\ nth[1].a = 0 /\ ~nth[1].type)
        => result = (Position(el, nth[1]) = nth[1].b)

\* C4: for every element and every coefficients a and b, match_nth
\* terminates.
NthReturns == <>(pc = "return")

\* C7: with of_type set, the position is counted among the element siblings
\* of the candidate's name and namespace, in every document mode.  (Stated
\* for the n flag set and a candidate that is not at the last index of the
\* parent's contents, where C2's divergence cannot interfere.)
NthOfTypeCountsSameType ==
    (/\ Returned /\ nth[1].n /\ nth[1].type
     /\ Position(el, nth[1]) < Len(Contents(Parent(el))))
        => result = ClosedForm(Position(el, nth[1]), nth[1].a, nth[1].b)

====
